---- MODULE Spec2Model ----
(***************************************************************************)
(* Placement and routing engine of the actor runtime: the registry client  *)
(* (lockActor, unlockActor, storeOrGet) over a key-value store with TTLs,  *)
(* the per-node mapper (handleMsg, lock, lockKey, migrate, stop), and the   *)
(* RPC client pool and server (newClient, resetHiveClient, sendMsg,        *)
(* sendRaft, ProcessCmd).                                                  *)
(*                                                                         *)
(* The specifications share the variables:                                 *)
(*   SpecSog     one storeOrGet call on an arbitrary registry content,     *)
(*   SpecReg     concurrent storeOrGet calls, one store operation per step,*)
(*   SpecRegFair SpecReg where a client that can take a step takes one,    *)
(*   Spec        the mappers of a two-node cluster, with migration,        *)
(*   SpecStop    the mappers of a two-node cluster, with the stop command, *)
(*   SpecRpc     one caller of the client pool sending commands, over a    *)
(*               long time, while the peer stops and comes back,           *)
(*   SpecSend    one caller of the client pool sending batches of messages *)
(*               over a short time,                                        *)
(*   SpecRaft    one caller of the client pool sending raft batches over a *)
(*               short time,                                               *)
(*   SpecPool    two callers of the client pool, one statement per step,   *)
(*   SpecCmd     one ProcessCmd request on the server.                     *)
(***************************************************************************)
EXTENDS Integers, Sequences, FiniteSets, TLC

VARIABLES
    kv,        \* registry: DictionaryKey -> node value (<<>>: no such key)
    lockNode,  \* registry: value of the actor's __lock__ key (<<>>: no such key)
    sog,       \* SpecSog: the single storeOrGet call and its outcome
    call,      \* SpecReg: per client, the position inside storeOrGet
    lockOwner, \* SpecReg: the client whose Create made the present __lock__ key
    ncalls,    \* SpecReg: storeOrGet calls started so far
    stolen,    \* SpecReg: a Delete in unlockActor removed another client's key
    lastRId,   \* mapper.lastRId, per stage
    idToRcvrs, \* mapper.idToRcvrs, per stage: RcvrId -> receiver (0: no entry)
    keyToRcvrs,\* mapper.keyToRcvrs, per stage: DictionaryKey -> receiver (0: none)
    rcvrs,     \* the receiver objects ever made; a receiver is its index here
    rchan,     \* the data queues the receivers were made with
    dataCh,    \* mapper.dataCh, per stage
    ctrlCh,    \* mapper.ctrlCh, per stage
    run,       \* per stage, where the mapper's loop is
    hist,      \* per stage, what the mapper's last step did (for the claims)
    got,       \* per receiver made by defaultLocalRcvr, the messages dispatched
               \* to it or to its proxy that the data queues have yielded
    env,       \* the messages and commands sent to the mappers so far
    clock,     \* time.Now() in milliseconds, and the times it has advanced
    peer,      \* the peer hive: "up", "down" (its listener is stopped) or
               \* "unknown" (the registry has no such hive)
    hiveClients, \* rpcClientPool.hiveClients: hive -> client (0: no entry)
    retries,   \* rpcClientPool.retries: hive -> dialTry
    made,      \* the rpcClients dialed so far; a client is its number here
    thr,       \* SpecPool: per caller, the position inside the pool's methods
    out        \* SpecRpc, SpecCmd: the last call and what it returned

regVars == <<kv, lockNode, sog, call, lockOwner, ncalls, stolen>>
rpcVars == <<clock, peer, hiveClients, retries, made, thr, out>>
mapVars == <<lastRId, idToRcvrs, keyToRcvrs, rcvrs, rchan, dataCh, ctrlCh, run,
             hist, got, env, rpcVars>>
callVars == <<sog, call, lockOwner, ncalls, stolen, rpcVars>>
vars == <<kv, lockNode, sog, call, lockOwner, ncalls, stolen, lastRId,
          idToRcvrs, keyToRcvrs, rcvrs, rchan, dataCh, ctrlCh, run, hist, got,
          env, clock, peer, hiveClients, retries, made, thr, out>>

(***************************************************************************)
(* Bounds                                                                  *)
(***************************************************************************)
\* storeOrGet calls started in one behaviour of SpecReg
MaxCalls == 3

\* DictionaryKeys of the one modelled actor, in canonical (sort) order
Keys == {1, 2, 3}
\* StageIds of the cluster
Stages == {1, 2}
\* registry clients of SpecReg and the keys they claim
Clients == {1, 2}
RegKeys == {1, 2}

(***************************************************************************)
(* regVal and its JSON form                                                *)
(***************************************************************************)
regVal(s, r) == [StageId |-> s, RcvrId |-> r]

Eq(this, that) == this.StageId = that.StageId /\ this.RcvrId = that.RcvrId

\* {"stage_id": s, "rcvr_id": r} as the pair of its two fields
marshallRegVal(v) == <<v.StageId, v.RcvrId>>

unmarshallRegVal(d) == [StageId |-> d[1], RcvrId |-> d[2]]

\* what Get finds when the key does not exist (err != nil)
NoNode == <<>>

\* the RegVals in use: two receiver IDs on each stage
RegVals == {regVal(s, r) : s \in Stages, r \in {1, 2}}
NodeValues == {NoNode} \cup {marshallRegVal(v) : v \in RegVals}

(***************************************************************************)
(* MapSet: a sequence of distinct DictionaryKeys, sorted by sort.Sort      *)
(***************************************************************************)
RECURSIVE Insert(_, _)
Insert(k, s) ==
    IF s = <<>> THEN <<k>>
    ELSE IF k <= Head(s) THEN <<k>> \o s
    ELSE <<Head(s)>> \o Insert(k, Tail(s))

RECURSIVE Sort(_)
Sort(ms) == IF ms = <<>> THEN <<>> ELSE Insert(Head(ms), Sort(Tail(ms)))

Range(s) == {s[j] : j \in 1..Len(s)}

MapSetsOver(K) == {ms \in UNION {[1..n -> K] : n \in 1..Cardinality(K)} :
                      \A x, y \in 1..Len(ms) : x # y => ms[x] # ms[y]}

MapSets == MapSetsOver(Keys)

(***************************************************************************)
(* The store's operations                                                  *)
(***************************************************************************)
\* Create(k, value, ttl): fails when the key exists
Create(store, k, value) ==
    IF store[k] = NoNode THEN [store EXCEPT ![k] = value] ELSE store

(***************************************************************************)
(* storeOrGet                                                              *)
(***************************************************************************)
\* the state of the read loop before its first iteration
readInit(id) ==
    [v |-> id, mv |-> marshallRegVal(id), validate |-> FALSE, fatal |-> FALSE]

\* one iteration of the read loop on the node Get returned
readKey(id, st, node) ==
    IF st.fatal \/ node = NoNode THEN st
    ELSE LET resV == unmarshallRegVal(node) IN
         IF Eq(resV, st.v) THEN st
         ELSE IF st.validate THEN [st EXCEPT !.fatal = TRUE]
         ELSE [st EXCEPT !.v = resV, !.mv = node, !.validate = TRUE]

RECURSIVE readAll(_, _, _, _)
readAll(store, id, ms, st) ==
    IF ms = <<>> THEN st
    ELSE readAll(store, id, Tail(ms), readKey(id, st, store[Head(ms)]))

\* mutant: the second loop writes every key, existing or not
createAllSet(store, ms, mv) ==
    [k \in DOMAIN store |-> IF k \in Range(ms) THEN mv ELSE store[k]]

RECURSIVE createAll(_, _, _)
createAll(store, ms, mv) ==
    IF ms = <<>> THEN store
    ELSE createAll(Create(store, Head(ms), mv), Tail(ms), mv)

\* the whole call, run alone on the store (the __lock__ key is free before
\* and, unless the call is fatal, after)
storeOrGet(store, id, ms) ==
    LET st == readAll(store, id, Sort(ms), readInit(id)) IN
    [kv    |-> IF st.fatal THEN store ELSE createAll(store, Sort(ms), st.mv),
     v     |-> st.v,
     fatal |-> st.fatal]

(***************************************************************************)
(* The mapper's state                                                      *)
(***************************************************************************)
\* detachedRcvrId
detachedRcvrId == 0

\* receiver IDs a mapper hands out: lastRId stays below MaxId
MaxId == 4
\* messages sent to the mappers in one behaviour
MaxMsgs == 3
\* capacity of a receiver's data queue, cap(mapr.dataCh)
QueueCap == 2
\* migrate-receiver commands sent to the mappers in one behaviour
MaxMigs == 1
\* stop commands sent to the mappers in one behaviour
MaxStops == 1

\* RcvrId{StageId, ActorName, Id} of the one modelled actor
rcvrId(s, i) == [StageId |-> s, Id |-> i]

AllIds == {rcvrId(s, i) : s \in Stages, i \in 0..MaxId}

\* the result of a map lookup that found nothing (ok = false)
NoRcvr == 0

\* ord: the message's place among those its mapper has taken; root: the
\* receiver it was dispatched to, as first made (both for the claims)
NoMsg == [unicast |-> FALSE, to |-> rcvrId(1, 0), ms |-> <<>>, ord |-> 0,
          root |-> 0]

\* nothing to tell of the mapper's last step
NoHist == [keyed |-> FALSE, ms |-> <<>>, pre |-> <<>>, enq |-> NoRcvr,
           lockCalled |-> FALSE, tentative |-> rcvrId(1, 0),
           answer |-> regVal(1, 0), before |-> 0,
           mig |-> "none", old |-> NoRcvr, new |-> rcvrId(1, 0), M |-> {},
           stopped |-> FALSE]

NoCmd == [cmdType |-> "none", From |-> rcvrId(1, 0), To |-> 0, replyTo |-> 0,
          no |-> 0]

\* the mapper waits in its select; taken counts the messages it has taken.
\* todo: the entries stopReceivers has still to visit; sent: the receivers it
\* has sent stop to; closed: closeChannels was called
Idle == [pc |-> "idle", mh |-> NoMsg, rcvr |-> NoRcvr, taken |-> 0,
         cmd |-> NoCmd, old |-> NoRcvr, reply |-> rcvrId(1, 0),
         todo |-> {}, sent |-> <<>>, closed |-> FALSE]

InitMap ==
    /\ lastRId = [n \in Stages |-> 0]
    /\ idToRcvrs = [n \in Stages |-> [id \in AllIds |-> NoRcvr]]
    /\ keyToRcvrs = [n \in Stages |-> [k \in RegKeys |-> NoRcvr]]
    /\ rcvrs = <<>>
    /\ rchan = <<>>
    /\ dataCh = [n \in Stages |-> <<>>]
    /\ ctrlCh = [n \in Stages |-> <<>>]
    /\ run = [n \in Stages |-> Idle]
    /\ hist = [n \in Stages |-> NoHist]
    /\ got = <<>>
    /\ env = [msgs |-> 0, migs |-> 0, stops |-> 0,
              res |-> [c \in 1..MaxMigs |-> 0],
              ret |-> [c \in 1..MaxMigs |-> FALSE]]

(***************************************************************************)
(* The RPC client pool's state                                             *)
(***************************************************************************)
\* time.Duration values, in milliseconds
maxWait == 8000
minWait == 50
\* 1 * time.Second, the wait after a successful dial
second == 1000

\* the times the clock advances in one behaviour of SpecRpc
MaxTicks == 7
\* the times the clock advances in one behaviour of SpecSend and SpecPool
MaxPoolTicks == 2
\* calls of hiveClient started in one behaviour of SpecPool
MaxOps == 3
\* commands in one ProcessCmd request
MaxCmds == 2

\* the peer hives, the bees that live on them, and the callers of the pool
Hives == {1}
Bees == {1, 2}
Callers == {1, 2}

\* the result of a lookup in hiveClients that found nothing (ok = false)
NoClient == 0

\* dialTry{wait: minWait}; next is the zero time, before every time.Now().
\* lookupRetry makes the entry on the first newClient for the hive.
\* streak and failedAt (for the claims): the failed dials since the last
\* successful one, and the time of the last failed dial.
newDialTry ==
    [next |-> 0, wait |-> minWait, tries |-> 0, streak |-> 0, failedAt |-> 0]

\* a caller that is not inside a method of the pool
IdleThr == [pc |-> "idle", hive |-> 1, prev |-> NoClient, client |-> NoClient,
            deleted |-> NoClient, dialed |-> FALSE, ops |-> 0]

\* what is kept of the call before the last one
NoPre == [fail |-> "none", redial |-> "none"]

\* no call made yet.  Of a call are kept: peer, the peer's state at the
\* call; since, the time between the last
\* failed dial before the call and the call; order, the destinations in the
\* order the map iteration visited them; errs, the
\* error of each; ret, the error returned; dialed, a dial was made; fail,
\* whether a relay on a cached client to the stopped peer failed with a
\* transport error; redial, what became of the reset's dial; calls, the calls
\* made on the raft reporter.
NoOut == [op |-> "none", peer |-> "up", since |-> 0, order |-> <<>>, errs |-> <<>>,
          ret |-> "nil", dialed |-> FALSE, fail |-> "none", redial |-> "none",
          pre |-> NoPre, batch |-> <<>>, calls |-> <<>>, cmds |-> <<>>,
          chs |-> <<>>,
          res |-> <<>>]

\* newRPCClientPool, before any call; the clock reads a time after the zero
\* time
InitPool ==
    /\ clock = [now |-> 1, ticks |-> 0]
    /\ peer = "up"
    /\ hiveClients = [h \in Hives |-> NoClient]
    /\ retries = [h \in Hives |-> newDialTry]
    /\ made = 0
    /\ thr = [c \in Callers |-> IdleThr]

InitRpc == InitPool /\ out = NoOut

(***************************************************************************)
(* SpecSog: one call of storeOrGet on every registry content               *)
(***************************************************************************)
NoCall == [pc |-> "idle", id |-> regVal(1, 1), ms |-> <<>>, v |-> regVal(1, 1),
           mv |-> <<>>, validate |-> FALSE, i |-> 1, notified |-> FALSE,
           locked |-> FALSE]

InitSog ==
    /\ kv \in [Keys -> NodeValues]
    /\ lockNode = NoNode
    /\ \E id \in RegVals, ms \in MapSets :
         sog = [pc |-> "call", id |-> id, ms |-> ms, pre |-> kv,
                v |-> id, lockHeld |-> FALSE]
    /\ call = [p \in Clients |-> NoCall]
    /\ lockOwner = 0
    /\ ncalls = 0
    /\ stolen = FALSE
    /\ InitMap
    /\ InitRpc

\* lockActor creates the free __lock__ key, the loops run, and the deferred
\* unlockActor deletes the key unless glog.Fatalf ended the process
SogCall ==
    /\ sog.pc = "call"
    /\ lockNode = NoNode
    /\ LET r == storeOrGet(kv, sog.id, sog.ms) IN
         /\ kv' = r.kv
         /\ lockNode' = IF r.fatal THEN marshallRegVal(sog.id) ELSE NoNode
         /\ sog' = [sog EXCEPT !.pc = IF r.fatal THEN "fatal" ELSE "returned",
                               !.v = r.v, !.lockHeld = r.fatal]
    /\ UNCHANGED <<call, lockOwner, ncalls, stolen>>
    /\ UNCHANGED mapVars

NextSog == SogCall

SpecSog == InitSog /\ [][NextSog]_vars

\* the RegVals other than the caller's held before the call by keys of ms
foreignBefore(pre, id, ms) ==
    {unmarshallRegVal(pre[k]) : k \in {x \in Range(ms) : pre[x] # NoNode}}
        \ {id}

\* C2 as stated: after a return of v every key of M holds v; v is the
\* caller's RegVal iff the caller owns all of M, and otherwise all of M was
\* already held by v before the call.
C2_ReturnContractOriginal ==
    sog.pc = "returned" =>
        /\ \A k \in Range(sog.ms) : kv[k] = marshallRegVal(sog.v)
        /\ (sog.v = sog.id) <=>
              (\A k \in Range(sog.ms) : kv[k] = marshallRegVal(sog.id))
        /\ sog.v # sog.id =>
              \A k \in Range(sog.ms) : sog.pre[k] = marshallRegVal(sog.v)

\* C2 amended: after a return of v from a call that ran alone, every key of
\* M that did not exist holds v, every key that existed keeps its value,
\* which is v or the caller's RegVal, no key outside M changed, and v is the
\* caller's RegVal iff no key of M held a foreign RegVal (otherwise v is
\* that single foreign RegVal).
C2_ReturnContract ==
    sog.pc = "returned" =>
        /\ \A k \in Range(sog.ms) :
              IF sog.pre[k] = NoNode
              THEN kv[k] = marshallRegVal(sog.v)
              ELSE /\ kv[k] = sog.pre[k]
                   /\ kv[k] \in {marshallRegVal(sog.v), marshallRegVal(sog.id)}
        /\ \A k \in Keys \ Range(sog.ms) : kv[k] = sog.pre[k]
        /\ (sog.v = sog.id) <=> (foreignBefore(sog.pre, sog.id, sog.ms) = {})
        /\ sog.v # sog.id => foreignBefore(sog.pre, sog.id, sog.ms) = {sog.v}

\* C2 witness: a call returned on a mapSet of which one key was absent, one
\* held the caller's RegVal and one held a foreign RegVal.
C2_Witness ==
    /\ sog.pc = "returned"
    /\ \E a, b, c \in Range(sog.ms) :
          /\ sog.pre[a] = NoNode
          /\ sog.pre[b] = marshallRegVal(sog.id)
          /\ sog.pre[c] \notin {NoNode, marshallRegVal(sog.id)}
          /\ kv[a] = marshallRegVal(sog.v)
          /\ sog.v # sog.id

\* C3 as stated: the call is fatal iff the existing keys of M hold two
\* distinct RegVals that both differ from the caller's.
C3_FatalIffTwoForeign ==
    sog.pc \in {"returned", "fatal"} =>
        ((sog.pc = "fatal") <=>
            (Cardinality(foreignBefore(sog.pre, sog.id, sog.ms)) >= 2))

(***************************************************************************)
(* SpecReg: concurrent storeOrGet calls, one store operation per step.     *)
(* The __lock__ key expires by TTL; Watch may fail with a transport error. *)
(* The data keys' TTL is taken to outlast the calls.                       *)
(***************************************************************************)
InitReg ==
    /\ kv = [k \in RegKeys |-> NoNode]
    /\ lockNode = NoNode
    /\ sog = [pc |-> "none", id |-> regVal(1, 1), ms |-> <<>>, pre |-> kv,
              v |-> regVal(1, 1), lockHeld |-> FALSE]
    /\ call = [p \in Clients |-> NoCall]
    /\ lockOwner = 0
    /\ ncalls = 0
    /\ stolen = FALSE
    /\ InitMap
    /\ InitRpc

\* every Watch registered on the __lock__ key sees its next change
notifyWatchers(c) ==
    [p \in Clients |->
        IF c[p].pc = "watching" THEN [c[p] EXCEPT !.notified = TRUE] ELSE c[p]]

\* storeOrGet after g.lockActor(id) returned, its result dropped: sort.Sort
\* and the locals of the read loop
enterStoreOrGet(c, gotLock) ==
    [c EXCEPT !.pc = "get", !.ms = Sort(c.ms), !.v = c.id,
              !.mv = marshallRegVal(c.id), !.validate = FALSE, !.i = 1,
              !.locked = gotLock]

\* the mapper of stage p calls storeOrGet(id, ms) with an ID of its stage
Invoke(p) ==
    /\ call[p].pc = "idle"
    /\ ncalls < MaxCalls
    /\ \E id \in {x \in RegVals : x.StageId = p}, ms \in MapSetsOver(RegKeys) :
         call' = [call EXCEPT ![p] = [NoCall EXCEPT !.pc = "lock", !.id = id,
                                                    !.ms = ms]]
    /\ ncalls' = ncalls + 1
    /\ UNCHANGED <<kv, lockNode, sog, lockOwner, stolen>>
    /\ UNCHANGED mapVars

\* lockActor: g.Create(k, v, ttl)
LockCreate(p) ==
    /\ call[p].pc = "lock"
    /\ IF lockNode = NoNode
       THEN /\ lockNode' = marshallRegVal(call[p].id)
            /\ lockOwner' = p
            /\ call' = [notifyWatchers(call) EXCEPT
                            ![p] = enterStoreOrGet(call[p], TRUE)]
       ELSE /\ call' = [call EXCEPT ![p].pc = "watch"]
            /\ UNCHANGED <<lockNode, lockOwner>>
    /\ UNCHANGED <<kv, sog, ncalls, stolen>>
    /\ UNCHANGED mapVars

\* lockActor: g.Watch(k, 0, ...) starts waiting for the next change
WatchBegin(p) ==
    /\ call[p].pc = "watch"
    /\ call' = [call EXCEPT ![p].pc = "watching", ![p].notified = FALSE]
    /\ UNCHANGED <<kv, lockNode, sog, lockOwner, ncalls, stolen>>
    /\ UNCHANGED mapVars

\* lockActor: Watch returns a change, the loop tries Create again
WatchReturn(p) ==
    /\ call[p].pc = "watching"
    /\ call[p].notified
    /\ call' = [call EXCEPT ![p].pc = "lock", ![p].notified = FALSE]
    /\ UNCHANGED <<kv, lockNode, sog, lockOwner, ncalls, stolen>>
    /\ UNCHANGED mapVars

\* lockActor: Watch returns an error, lockActor returns it
WatchError(p) ==
    /\ call[p].pc = "watching"
    /\ call' = [call EXCEPT ![p] = enterStoreOrGet(call[p], FALSE)]
    /\ UNCHANGED <<kv, lockNode, sog, lockOwner, ncalls, stolen>>
    /\ UNCHANGED mapVars

\* storeOrGet: one iteration of the read loop
GetKey(p) ==
    /\ call[p].pc = "get"
    /\ LET c  == call[p]
           st == IF c.i > Len(c.ms)
                 THEN [v |-> c.v, mv |-> c.mv, validate |-> c.validate,
                       fatal |-> FALSE]
                 ELSE readKey(c.id, [v |-> c.v, mv |-> c.mv,
                                     validate |-> c.validate, fatal |-> FALSE],
                              kv[c.ms[c.i]])
           last == c.i >= Len(c.ms)
       IN call' = [call EXCEPT ![p] =
             [c EXCEPT !.v = st.v, !.mv = st.mv, !.validate = st.validate,
                       !.pc = IF st.fatal THEN "fatal"
                              ELSE IF last THEN "create" ELSE "get",
                       !.i = IF st.fatal THEN c.i
                             ELSE IF last THEN 1 ELSE c.i + 1]]
    /\ UNCHANGED <<kv, lockNode, sog, lockOwner, ncalls, stolen>>
    /\ UNCHANGED mapVars

\* storeOrGet: one iteration of the create loop
CreateKey(p) ==
    /\ call[p].pc = "create"
    /\ LET c == call[p] IN
         /\ kv' = Create(kv, c.ms[c.i], c.mv)
         /\ call' = [call EXCEPT ![p].i = c.i + 1,
                                 ![p].pc = IF c.i >= Len(c.ms) THEN "unlock"
                                           ELSE "create"]
    /\ UNCHANGED <<lockNode, sog, lockOwner, ncalls, stolen>>
    /\ UNCHANGED mapVars

\* the deferred unlockActor: g.Get(k) and the comparison with the caller
UnlockGet(p) ==
    /\ call[p].pc = "unlock"
    /\ call' = [call EXCEPT ![p].pc =
                   IF lockNode = NoNode THEN "returned"
                   ELSE IF Eq(call[p].id, unmarshallRegVal(lockNode))
                        THEN "delete" ELSE "returned"]
    /\ UNCHANGED <<kv, lockNode, sog, lockOwner, ncalls, stolen>>
    /\ UNCHANGED mapVars

\* unlockActor: g.Delete(k)
UnlockDelete(p) ==
    /\ call[p].pc = "delete"
    /\ lockNode' = NoNode
    /\ lockOwner' = 0
    /\ stolen' = (stolen \/ (lockNode # NoNode /\ lockOwner # p))
    /\ call' = [IF lockNode # NoNode THEN notifyWatchers(call) ELSE call
                    EXCEPT ![p].pc = "returned"]
    /\ UNCHANGED <<kv, sog, ncalls>>
    /\ UNCHANGED mapVars

\* the caller of storeOrGet goes on
Return(p) ==
    /\ call[p].pc = "returned"
    /\ call' = [call EXCEPT ![p] = NoCall]
    /\ UNCHANGED <<kv, lockNode, sog, lockOwner, ncalls, stolen>>
    /\ UNCHANGED mapVars

\* the __lock__ key's TTL runs out
ExpireLock ==
    /\ lockNode # NoNode
    /\ lockNode' = NoNode
    /\ lockOwner' = 0
    /\ call' = notifyWatchers(call)
    /\ UNCHANGED <<kv, sog, ncalls, stolen>>
    /\ UNCHANGED mapVars

NextReg ==
    \/ \E p \in Clients :
          \/ Invoke(p)
          \/ LockCreate(p)
          \/ WatchBegin(p)
          \/ WatchReturn(p)
          \/ WatchError(p)
          \/ GetKey(p)
          \/ CreateKey(p)
          \/ UnlockGet(p)
          \/ UnlockDelete(p)
          \/ Return(p)
    \/ ExpireLock

SpecReg == InitReg /\ [][NextReg]_vars

\* the steps of a storeOrGet call that the client takes by itself once they
\* are possible; a new call, a transport error of Watch and the TTL of the
\* __lock__ key are up to the environment
ClientStep ==
    \E p \in Clients :
        \/ LockCreate(p)
        \/ WatchBegin(p)
        \/ WatchReturn(p)
        \/ GetKey(p)
        \/ CreateKey(p)
        \/ UnlockGet(p)
        \/ UnlockDelete(p)
        \/ Return(p)

SpecRegFair == InitReg /\ [][NextReg]_vars /\ WF_vars(ClientStep)

\* lockActor is between a failed Create and the return of its Watch
blocked(p) == call[p].pc \in {"watch", "watching"}

\* C20 as stated: a lockActor whose Create failed, and that finds the
\* __lock__ key free afterwards, eventually leaves its wait (it creates the
\* key or Watch returns an error) unless another caller creates the key.
C20_LockActorProgress ==
    \A p \in Clients :
        (blocked(p) /\ lockNode = NoNode)
            ~> (~blocked(p) \/ lockNode # NoNode)

\* a client is between its first Get and its last Create
inClaim(p) ==
    \/ call[p].pc = "get" /\ call[p].i > 1
    \/ call[p].pc = "create"

\* C4 as stated: at most one caller is between its first Get and its last
\* Create at any instant.
C4_MutualExclusion ==
    \A p, q \in Clients : p # q => ~(inClaim(p) /\ inClaim(q))

\* C5 as stated: when a storeOrGet call that created the __lock__ key ends,
\* by a return or by the fatal inconsistency, the key does not hold the
\* caller's RegVal.
C5_LockReleased ==
    [][\A p \in Clients :
          (/\ call[p].pc \notin {"returned", "fatal"}
           /\ call'[p].pc \in {"returned", "fatal"}
           /\ call[p].locked)
          => lockNode' # marshallRegVal(call[p].id)]_vars

\* C6 as stated: unlockActor never deletes a __lock__ key that another
\* holder created.
C6_NeverSteals == ~stolen

(***************************************************************************)
(* The mapper.  Its methods are operators on w, the part of the state one  *)
(* mapper step reads and writes: the registry, the mapper's own fields and *)
(* the receiver objects.  w.fatal tells that glog.Fatalf was called.       *)
(***************************************************************************)
World(n) ==
    [kv |-> kv, lastRId |-> lastRId[n], idToRcvrs |-> idToRcvrs[n],
     keyToRcvrs |-> keyToRcvrs[n], rcvrs |-> rcvrs, rchan |-> rchan,
     got |-> got, fatal |-> FALSE]

\* the modelled stages form a cluster: none runs isolated
isIsol(n) == FALSE

\* registery.set: the caller's RegVal is written to every key of the mapSet
set(store, id, ms) ==
    [kv    |-> [k \in DOMAIN store |->
                  IF k \in Range(ms) THEN marshallRegVal(id) ELSE store[k]],
     v     |-> id,
     fatal |-> FALSE]

receiverByKey(w, dk) == w.keyToRcvrs[dk]

receiverById(w, id) == w.idToRcvrs[id]

setReceiver(w, dk, rcvr) == [w EXCEPT !.keyToRcvrs[dk] = rcvr]

isLocalRcvr(n, id) == n = id.StageId

\* receiver.id()
idOf(w, rcvr) == w.rcvrs[rcvr].rId

nextRcvrId(w) == [w EXCEPT !.lastRId = w.lastRId + 1]

\* mutant: the tentative ID is not given back when the placement is lost
lockNoRewind(w, n, mapSet, force) ==
    LET w1 == nextRcvrId(w)
        id == rcvrId(n, w1.lastRId)
        r  == IF force THEN set(w1.kv, regVal(id.StageId, id.Id), mapSet)
              ELSE storeOrGet(w1.kv, regVal(id.StageId, id.Id), mapSet)
    IN  IF isIsol(n) THEN [w |-> w1, id |-> id]
        ELSE IF r.fatal THEN [w |-> [w1 EXCEPT !.fatal = TRUE], id |-> id]
        ELSE IF r.v.StageId = id.StageId /\ r.v.RcvrId = id.Id
             THEN [w |-> [w1 EXCEPT !.kv = r.kv], id |-> id]
             ELSE [w  |-> [w1 EXCEPT !.kv = r.kv],
                   id |-> rcvrId(r.v.StageId, r.v.RcvrId)]

lock(w, n, mapSet, force) ==
    LET w1 == nextRcvrId(w)
        id == rcvrId(n, w1.lastRId)
        r  == IF force THEN set(w1.kv, regVal(id.StageId, id.Id), mapSet)
              ELSE storeOrGet(w1.kv, regVal(id.StageId, id.Id), mapSet)
    IN  IF isIsol(n) THEN [w |-> w1, id |-> id]
        ELSE IF r.fatal THEN [w |-> [w1 EXCEPT !.fatal = TRUE], id |-> id]
        ELSE IF r.v.StageId = id.StageId /\ r.v.RcvrId = id.Id
             THEN [w |-> [w1 EXCEPT !.kv = r.kv], id |-> id]
             ELSE [w  |-> [w1 EXCEPT !.kv = r.kv, !.lastRId = w1.lastRId - 1],
                   id |-> rcvrId(r.v.StageId, r.v.RcvrId)]

\* the answer of storeOrGet is dropped
lockKey(w, n, dk, rcvr) ==
    LET w1 == setReceiver(w, dk, rcvr)
        id == idOf(w1, rcvr)
        r  == storeOrGet(w1.kv, regVal(id.StageId, id.Id), <<dk>>)
    IN  IF isIsol(n) THEN w1
        ELSE IF r.fatal THEN [w1 EXCEPT !.fatal = TRUE]
        ELSE [w1 EXCEPT !.kv = r.kv]

\* mutant: an unbound key of the mapSet is left unbound
RECURSIVE syncReceiversNoBind(_, _, _, _)
syncReceiversNoBind(w, n, ms, rcvr) ==
    IF ms = <<>> \/ w.fatal THEN w
    ELSE LET dkRecvr == receiverByKey(w, Head(ms)) IN
         IF dkRecvr = NoRcvr \/ dkRecvr = rcvr
         THEN syncReceiversNoBind(w, n, Tail(ms), rcvr)
         ELSE [w EXCEPT !.fatal = TRUE]

RECURSIVE syncReceivers(_, _, _, _)
syncReceivers(w, n, ms, rcvr) ==
    IF ms = <<>> \/ w.fatal THEN w
    ELSE LET dkRecvr == receiverByKey(w, Head(ms)) IN
         IF dkRecvr = NoRcvr
         THEN syncReceivers(lockKey(w, n, Head(ms), rcvr), n, Tail(ms), rcvr)
         ELSE IF dkRecvr = rcvr
         THEN syncReceivers(w, n, Tail(ms), rcvr)
         ELSE [w EXCEPT !.fatal = TRUE]

RECURSIVE anyReceiver(_, _)
anyReceiver(w, ms) ==
    IF ms = <<>> THEN NoRcvr
    ELSE IF receiverByKey(w, Head(ms)) # NoRcvr
         THEN receiverByKey(w, Head(ms))
         ELSE anyReceiver(w, Tail(ms))

\* defaultLocalRcvr: a receiver with a data queue of its own, kept under the
\* receiver's own index
defaultLocalRcvr(w, n, id) ==
    [stage |-> n, kind |-> "local", rId |-> id, ch |-> Len(w.rcvrs) + 1,
     root |-> Len(w.rcvrs) + 1, running |-> FALSE, stoppedBy |-> "none"]

findOrCreateReceiver(w, n, id) ==
    IF receiverById(w, id) # NoRcvr
    THEN [w |-> w, rcvr |-> receiverById(w, id)]
    ELSE LET l    == defaultLocalRcvr(w, n, id)
             rcvr == Len(w.rcvrs) + 1
             obj  == [l EXCEPT !.kind = IF isLocalRcvr(n, id) THEN "local"
                                        ELSE "proxy",
                               !.running = TRUE]
         IN  [w |-> [w EXCEPT !.rcvrs = Append(@, obj),
                              !.rchan = Append(@, <<>>),
                              !.got = Append(@, <<>>),
                              !.idToRcvrs[id] = rcvr],
              rcvr |-> rcvr]

RECURSIVE setReceivers(_, _, _)
setReceivers(w, ms, rcvr) ==
    IF ms = <<>> THEN w
    ELSE setReceivers(setReceiver(w, Head(ms), rcvr), Tail(ms), rcvr)

newReceiverForMapSet(w, n, mapSet) ==
    LET l == lock(w, n, mapSet, FALSE) IN
    IF l.w.fatal THEN [w |-> l.w, rcvr |-> NoRcvr]
    ELSE LET f == findOrCreateReceiver(l.w, n, l.id) IN
         [w |-> setReceivers(f.w, mapSet, f.rcvr), rcvr |-> f.rcvr]

\* handleMsg up to its last statement, rcvr.enqueMsg(mh): the receiver the
\* message goes to.  Every message carries its handler; mh.ms is what
\* handler.Map returns for it.
route(w, n, mh) ==
    IF mh.unicast
    THEN LET rcvr == receiverById(w, mh.to) IN
         IF rcvr # NoRcvr THEN [w |-> w, rcvr |-> rcvr]
         ELSE IF isLocalRcvr(n, mh.to)
              THEN [w |-> [w EXCEPT !.fatal = TRUE], rcvr |-> NoRcvr]
              ELSE findOrCreateReceiver(w, n, mh.to)
    ELSE LET mapSet == mh.ms
             rcvr   == anyReceiver(w, mapSet)
         IN  IF rcvr = NoRcvr
             THEN newReceiverForMapSet(w, n, mapSet)
             ELSE [w |-> syncReceivers(w, n, mapSet, rcvr), rcvr |-> rcvr]

\* the step's effect on the registry, the mapper's fields and the receivers
Commit(n, w) ==
    /\ kv' = w.kv
    /\ lastRId' = [lastRId EXCEPT ![n] = w.lastRId]
    /\ idToRcvrs' = [idToRcvrs EXCEPT ![n] = w.idToRcvrs]
    /\ keyToRcvrs' = [keyToRcvrs EXCEPT ![n] = w.keyToRcvrs]
    /\ rcvrs' = w.rcvrs
    /\ rchan' = w.rchan
    /\ got' = w.got

alive(n) == run[n].pc # "fatal"

\* the mapper's queues take a send: its process lives and closeChannels was
\* not called
open(n) == alive(n) /\ ~run[n].closed

Init ==
    /\ kv = [k \in RegKeys |-> NoNode]
    /\ lockNode = NoNode
    /\ sog = [pc |-> "none", id |-> regVal(1, 1), ms |-> <<>>, pre |-> kv,
              v |-> regVal(1, 1), lockHeld |-> FALSE]
    /\ call = [p \in Clients |-> NoCall]
    /\ lockOwner = 0
    /\ ncalls = 0
    /\ stolen = FALSE
    /\ InitMap
    /\ InitRpc

\* the IDs unicast messages are addressed to
UnicastIds == {rcvrId(s, 1) : s \in Stages}

Msgs == {[NoMsg EXCEPT !.ms = ms] : ms \in MapSetsOver(RegKeys)}
            \cup {[NoMsg EXCEPT !.unicast = TRUE, !.to = id] : id \in UnicastIds}

\* a message for the actor arrives on the mapper's data queue
Emit(n) ==
    /\ open(n)
    /\ env.msgs < MaxMsgs
    /\ Len(dataCh[n]) < QueueCap
    /\ \E m \in Msgs : dataCh' = [dataCh EXCEPT ![n] = Append(@, m)]
    /\ env' = [env EXCEPT !.msgs = @ + 1]
    /\ UNCHANGED <<kv, lockNode, lastRId, idToRcvrs, keyToRcvrs, rcvrs, rchan,
                   ctrlCh, run, hist, got>>
    /\ UNCHANGED callVars

\* mapper.start takes a message from dataCh; handleMsg up to enqueMsg
handleMsg(n) ==
    /\ run[n].pc = "idle"
    /\ dataCh[n] # <<>>
    /\ lastRId[n] < MaxId
    /\ LET mh == [Head(dataCh[n]) EXCEPT !.ord = run[n].taken + 1]
           r  == route(World(n), n, mh)
           locks == ~mh.unicast /\ anyReceiver(World(n), mh.ms) = NoRcvr
       IN  /\ Commit(n, r.w)
           /\ run' = [run EXCEPT ![n] =
                        [Idle EXCEPT !.pc = IF r.w.fatal THEN "fatal"
                                            ELSE "enque",
                                     !.mh = IF r.w.fatal THEN mh
                                            ELSE [mh EXCEPT !.root =
                                                    r.w.rcvrs[r.rcvr].root],
                                     !.rcvr = r.rcvr,
                                     !.taken = run[n].taken + 1,
                                     !.sent = run[n].sent,
                                     !.closed = run[n].closed]]
           /\ hist' = [hist EXCEPT ![n] =
                        [NoHist EXCEPT
                           !.keyed = ~mh.unicast /\ ~r.w.fatal,
                           !.ms = mh.ms,
                           !.pre = keyToRcvrs[n],
                           !.lockCalled = locks /\ ~r.w.fatal,
                           !.tentative = rcvrId(n, lastRId[n] + 1),
                           !.answer = storeOrGet(kv, regVal(n, lastRId[n] + 1),
                                                 mh.ms).v,
                           !.before = lastRId[n]]]
    /\ dataCh' = [dataCh EXCEPT ![n] = Tail(@)]
    /\ UNCHANGED <<lockNode, ctrlCh, env>>
    /\ UNCHANGED callVars

\* receiver.enqueMsg: the send on the receiver's data queue, which blocks
\* while the queue is full
enqueMsg(n) ==
    /\ run[n].pc = "enque"
    /\ LET ch == rcvrs[run[n].rcvr].ch IN
         /\ Len(rchan[ch]) < QueueCap
         /\ rchan' = [rchan EXCEPT ![ch] = Append(@, run[n].mh)]
    /\ run' = [run EXCEPT ![n] = [Idle EXCEPT !.taken = run[n].taken, !.sent = run[n].sent,
                           !.closed = run[n].closed]]
    /\ hist' = [hist EXCEPT ![n].enq = run[n].rcvr]
    /\ UNCHANGED <<kv, lockNode, lastRId, idToRcvrs, keyToRcvrs, rcvrs, dataCh,
                   ctrlCh, got, env>>
    /\ UNCHANGED callVars

\* a running receiver takes the next message from its data queue
receive(r) ==
    /\ alive(rcvrs[r].stage)
    /\ rcvrs[r].running
    /\ rchan[rcvrs[r].ch] # <<>>
    /\ rchan' = [rchan EXCEPT ![rcvrs[r].ch] = Tail(@)]
    /\ got' = [got EXCEPT ![Head(rchan[rcvrs[r].ch]).root] =
                              Append(@, Head(rchan[rcvrs[r].ch]))]
    /\ UNCHANGED <<kv, lockNode, lastRId, idToRcvrs, keyToRcvrs, rcvrs, dataCh,
                   ctrlCh, run, hist, env>>
    /\ UNCHANGED callVars

(***************************************************************************)
(* Control commands and migration                                          *)
(***************************************************************************)
\* the receivers a migrate-receiver command may name: the detached ID, the
\* first local ID and the first ID of another stage
MigrateIds == {rcvrId(s, i) : s \in Stages, i \in {detachedRcvrId, 1}}

\* a migrate-receiver command arrives on the mapper's control queue
EmitMigrate(n) ==
    /\ open(n)
    /\ env.migs < MaxMigs
    /\ Len(ctrlCh[n]) < QueueCap
    /\ \E from \in MigrateIds, to \in Stages \ {n} :
         ctrlCh' = [ctrlCh EXCEPT ![n] =
            Append(@, [NoCmd EXCEPT !.cmdType = "migrateRcvrCmd",
                                    !.From = from, !.To = to,
                                    !.no = env.migs + 1])]
    /\ env' = [env EXCEPT !.migs = @ + 1]
    /\ UNCHANGED <<kv, lockNode, lastRId, idToRcvrs, keyToRcvrs, rcvrs, rchan,
                   dataCh, run, hist, got>>
    /\ UNCHANGED callVars

newLocalReceiver(w, n) ==
    LET w1 == nextRcvrId(w) IN
    findOrCreateReceiver(w1, n, rcvrId(n, w1.lastRId))

\* the keys bound to a receiver with this ID, in canonical order
RECURSIVE keysOf(_, _, _)
keysOf(w, id, ks) ==
    IF ks = {} THEN <<>>
    ELSE LET k == CHOOSE x \in ks : \A y \in ks : x <= y
             rest == keysOf(w, id, ks \ {k})
         IN  IF w.keyToRcvrs[k] # NoRcvr /\ idOf(w, w.keyToRcvrs[k]) = id
             THEN <<k>> \o rest ELSE rest

mapSetOfRcvr(w, id) == keysOf(w, id, DOMAIN w.keyToRcvrs)

\* mutant: the proxy gets a data queue of its own
proxyFromLocalOwnQueue(w, n, id, lRcvr) ==
    IF isLocalRcvr(n, id) \/ receiverById(w, id) # NoRcvr
    THEN [w |-> w, rcvr |-> NoRcvr, err |-> TRUE]
    ELSE LET r   == Len(w.rcvrs) + 1
             obj == [w.rcvrs[lRcvr] EXCEPT !.kind = "proxy", !.rId = id,
                                           !.ch = r]
         IN  [w |-> [w EXCEPT !.rcvrs = Append(@, obj),
                              !.rchan = Append(@, <<>>),
                              !.got = Append(@, <<>>),
                              !.idToRcvrs[id] = r,
                              !.idToRcvrs[idOf(w, lRcvr)] = r],
              rcvr |-> r, err |-> FALSE]

\* mutant: the proxy is installed under the new remote ID only
proxyFromLocalNewOnly(w, n, id, lRcvr) ==
    IF isLocalRcvr(n, id) \/ receiverById(w, id) # NoRcvr
    THEN [w |-> w, rcvr |-> NoRcvr, err |-> TRUE]
    ELSE LET r   == Len(w.rcvrs) + 1
             obj == [w.rcvrs[lRcvr] EXCEPT !.kind = "proxy", !.rId = id]
         IN  [w |-> [w EXCEPT !.rcvrs = Append(@, obj),
                              !.rchan = Append(@, <<>>),
                              !.got = Append(@, <<>>),
                              !.idToRcvrs[id] = r],
              rcvr |-> r, err |-> FALSE]

\* the proxy is a copy of the local receiver, data queue included, with the
\* new ID
proxyFromLocal(w, n, id, lRcvr) ==
    IF isLocalRcvr(n, id) \/ receiverById(w, id) # NoRcvr
    THEN [w |-> w, rcvr |-> NoRcvr, err |-> TRUE]
    ELSE LET r   == Len(w.rcvrs) + 1
             obj == [w.rcvrs[lRcvr] EXCEPT !.kind = "proxy", !.rId = id]
         IN  [w |-> [w EXCEPT !.rcvrs = Append(@, obj),
                              !.rchan = Append(@, <<>>),
                              !.got = Append(@, <<>>),
                              !.idToRcvrs[id] = r,
                              !.idToRcvrs[idOf(w, lRcvr)] = r],
              rcvr |-> r, err |-> FALSE]

\* migrate from proxyFromLocal to go newRcvr.start()
\* migrate sends an asyncResult on the response channel of command no and
\* returns
answer(e, no) == [e EXCEPT !.res[no] = @ + 1, !.ret[no] = TRUE]

\* migrate returns from command no without a send on its response channel
returned(e, no) == [e EXCEPT !.ret[no] = TRUE]

migrateTail(w, n, id, oldRcvr) ==
    LET p == proxyFromLocal(w, n, id, oldRcvr) IN
    IF p.err THEN p
    ELSE LET mapSet == mapSetOfRcvr(p.w, idOf(p.w, oldRcvr))
             newId  == idOf(p.w, p.rcvr)
             w1 == [p.w EXCEPT !.kv = set(p.w.kv, regVal(newId.StageId,
                                                         newId.Id), mapSet).kv]
             w2 == setReceivers(w1, mapSet, p.rcvr)
         IN  [w |-> [w2 EXCEPT !.rcvrs[p.rcvr].running = TRUE],
              rcvr |-> p.rcvr, err |-> FALSE]

\* a stop command arrives on the mapper's control queue
EmitStop(n) ==
    /\ open(n)
    /\ env.stops < MaxStops
    /\ Len(ctrlCh[n]) < QueueCap
    /\ ctrlCh' = [ctrlCh EXCEPT ![n] =
                    Append(@, [NoCmd EXCEPT !.cmdType = "stopCmd"])]
    /\ env' = [env EXCEPT !.stops = @ + 1]
    /\ UNCHANGED <<kv, lockNode, lastRId, idToRcvrs, keyToRcvrs, rcvrs, rchan,
                   dataCh, run, hist, got>>
    /\ UNCHANGED callVars

\* stopReceivers: what it sends stop for, the detached receiver (entry 0) if
\* one is registered and every entry of keyToRcvrs
stopReceivers(w, n) ==
    (IF w.idToRcvrs[rcvrId(n, detachedRcvrId)] # NoRcvr THEN {0} ELSE {})
        \cup {k \in DOMAIN w.keyToRcvrs : w.keyToRcvrs[k] # NoRcvr}

\* the receiver an entry of stopReceivers stands for
stopTarget(n, t) ==
    IF t = 0 THEN idToRcvrs[n][rcvrId(n, detachedRcvrId)] ELSE keyToRcvrs[n][t]

\* mapper.start takes a command from ctrlCh; handleCmd.  For a
\* migrate-receiver command this is migrate up to the send of stop on the old
\* receiver's control queue; for a stop command, up to the first send of
\* stopReceivers.
handleCmd(n) ==
    /\ run[n].pc = "idle"
    /\ ctrlCh[n] # <<>>
    /\ lastRId[n] < MaxId
    /\ LET cmd == Head(ctrlCh[n]) IN
       IF cmd.cmdType = "stopCmd"
       THEN /\ run' = [run EXCEPT ![n].pc = "stop_send",
                                  ![n].todo = stopReceivers(World(n), n),
                                  ![n].sent = <<>>]
            /\ hist' = [hist EXCEPT ![n] = NoHist]
            /\ UNCHANGED <<kv, lastRId, idToRcvrs, keyToRcvrs, rcvrs, rchan,
                           got>>
       ELSE
       IF cmd.cmdType = "newRcvrCmd"
       THEN LET f == newLocalReceiver(World(n), n)
                waiting == /\ cmd.replyTo # n
                           /\ run[cmd.replyTo].pc = "mig_wait"
                           /\ run[cmd.replyTo].cmd.no = cmd.no
            IN  /\ Commit(n, f.w)
                /\ run' = IF waiting
                          THEN [run EXCEPT ![cmd.replyTo].pc = "mig_reply",
                                           ![cmd.replyTo].reply =
                                                idOf(f.w, f.rcvr)]
                          ELSE run
                /\ hist' = [hist EXCEPT ![n] = NoHist]
       ELSE LET oldRcvr == receiverById(World(n), cmd.From)
                rejected == cmd.From.Id = detachedRcvrId \/ oldRcvr = NoRcvr
            IN  /\ run' = [run EXCEPT ![n] =
                            IF rejected THEN run[n]
                            ELSE [run[n] EXCEPT !.pc = "mig_stop", !.cmd = cmd,
                                                !.old = oldRcvr]]
                /\ hist' = [hist EXCEPT ![n] =
                             [NoHist EXCEPT !.mig = IF rejected THEN "error"
                                                    ELSE "none"]]
                /\ UNCHANGED <<kv, lastRId, idToRcvrs, keyToRcvrs, rcvrs,
                               rchan, got>>
    /\ env' = LET cmd == Head(ctrlCh[n]) IN
              IF /\ cmd.cmdType = "migrateRcvrCmd"
                 /\ \/ cmd.From.Id = detachedRcvrId
                    \/ receiverById(World(n), cmd.From) = NoRcvr
              THEN answer(env, cmd.no)
              ELSE env
    /\ ctrlCh' = [ctrlCh EXCEPT ![n] = Tail(@)]
    /\ UNCHANGED <<lockNode, dataCh>>
    /\ UNCHANGED callVars

\* the old receiver takes the stop command, stops and acknowledges
rcvrStop(n) ==
    /\ run[n].pc = "mig_stop"
    /\ rcvrs[run[n].old].running
    /\ rcvrs' = [rcvrs EXCEPT ![run[n].old].running = FALSE,
                             ![run[n].old].stoppedBy = "migrate"]
    /\ run' = [run EXCEPT ![n].pc = "mig_dial"]
    /\ UNCHANGED <<kv, lockNode, lastRId, idToRcvrs, keyToRcvrs, rchan, dataCh,
                   ctrlCh, hist, got, env>>
    /\ UNCHANGED callVars

\* migrate: dialStage, the handshake and the new-receiver command, which the
\* target stage puts on its mapper's control queue; any of them may fail
migrateDial(n) ==
    /\ run[n].pc = "mig_dial"
    /\ \/ /\ run' = [run EXCEPT ![n] = [Idle EXCEPT !.taken = run[n].taken, !.sent = run[n].sent,
                           !.closed = run[n].closed]]
          /\ hist' = [hist EXCEPT ![n].mig = "error"]
          /\ env' = answer(env, run[n].cmd.no)
          /\ UNCHANGED ctrlCh
       \/ /\ open(run[n].cmd.To)
          /\ Len(ctrlCh[run[n].cmd.To]) < QueueCap
          /\ ctrlCh' = [ctrlCh EXCEPT ![run[n].cmd.To] =
                Append(@, [NoCmd EXCEPT !.cmdType = "newRcvrCmd",
                                        !.replyTo = n, !.no = run[n].cmd.no])]
          /\ run' = [run EXCEPT ![n].pc = "mig_wait"]
          /\ UNCHANGED <<hist, env>>
    /\ UNCHANGED <<kv, lockNode, lastRId, idToRcvrs, keyToRcvrs, rcvrs, rchan,
                   dataCh, got>>
    /\ UNCHANGED callVars

\* migrate: dec.Decode fails
migrateDecodeError(n) ==
    /\ run[n].pc = "mig_wait"
    /\ run' = [run EXCEPT ![n] = [Idle EXCEPT !.taken = run[n].taken, !.sent = run[n].sent,
                           !.closed = run[n].closed]]
    /\ hist' = [hist EXCEPT ![n].mig = "error"]
    /\ env' = answer(env, run[n].cmd.no)
    /\ UNCHANGED <<kv, lockNode, lastRId, idToRcvrs, keyToRcvrs, rcvrs, rchan,
                   dataCh, ctrlCh, got>>
    /\ UNCHANGED callVars

\* migrate after the new receiver's ID was decoded.  The type assertion
\* oldRcvr.(*localRcvr) panics when the old receiver is a proxy.  A failure
\* of proxyFromLocal is sent on the response channel; after go newRcvr.start()
\* migrate returns without a send.
migrateFinish(n) ==
    /\ run[n].pc = "mig_reply"
    /\ LET old == run[n].old
           bound == {k \in RegKeys : keyToRcvrs[n][k] = old}
       IN
       IF rcvrs[old].kind # "local"
       THEN /\ run' = [run EXCEPT ![n].pc = "fatal"]
            /\ hist' = [hist EXCEPT ![n].mig = "panic"]
            /\ UNCHANGED <<kv, lastRId, idToRcvrs, keyToRcvrs, rcvrs, rchan,
                           got, env>>
       ELSE LET m == migrateTail(World(n), n, run[n].reply, old) IN
            /\ Commit(n, m.w)
            /\ env' = IF m.err THEN answer(env, run[n].cmd.no)
                      ELSE returned(env, run[n].cmd.no)
            /\ run' = [run EXCEPT ![n] = [Idle EXCEPT !.taken = run[n].taken, !.sent = run[n].sent,
                           !.closed = run[n].closed]]
            /\ hist' = [hist EXCEPT ![n] =
                         [NoHist EXCEPT !.mig = IF m.err THEN "error" ELSE "ok",
                                        !.old = old,
                                        !.new = run[n].reply,
                                        !.M = bound]]
    /\ UNCHANGED <<lockNode, dataCh, ctrlCh>>
    /\ UNCHANGED callVars

\* stopReceivers: r.ctrlCh <- stop for the next entry, in the order the map
\* iteration yields them (the detached receiver first).  The control queue is
\* unbuffered: the send completes when a receiver that runs on that queue
\* takes the command, and that receiver then terminates.
stopSend(n) ==
    /\ run[n].pc = "stop_send"
    /\ \E t \in run[n].todo :
         /\ 0 \in run[n].todo => t = 0
         /\ \E x \in 1..Len(rcvrs) :
              /\ rcvrs[x].ch = rcvrs[stopTarget(n, t)].ch
              /\ rcvrs[x].running
              /\ rcvrs' = [rcvrs EXCEPT ![x].running = FALSE,
                                        ![x].stoppedBy = "stop"]
         /\ run' = [run EXCEPT ![n].todo = @ \ {t},
                               ![n].sent = Append(@, stopTarget(n, t))]
    /\ UNCHANGED <<kv, lockNode, lastRId, idToRcvrs, keyToRcvrs, rchan, dataCh,
                   ctrlCh, hist, got, env>>
    /\ UNCHANGED callVars

\* handleCmd(stop) after stopReceivers: closeChannels, and the loop is back
\* at its select
closeChannels(n) ==
    /\ run[n].pc = "stop_send"
    /\ run[n].todo = {}
    /\ run' = [run EXCEPT ![n].pc = "idle", ![n].closed = TRUE]
    /\ hist' = [hist EXCEPT ![n] = [NoHist EXCEPT !.stopped = TRUE]]
    /\ UNCHANGED <<kv, lockNode, lastRId, idToRcvrs, keyToRcvrs, rcvrs, rchan,
                   dataCh, ctrlCh, got, env>>
    /\ UNCHANGED callVars

\* mapper.start: the select yields ok = false from a closed queue that holds
\* nothing more, and the loop returns
mapperReturn(n) ==
    /\ run[n].pc = "idle"
    /\ run[n].closed
    /\ dataCh[n] = <<>> \/ ctrlCh[n] = <<>>
    /\ run' = [run EXCEPT ![n].pc = "stopped"]
    /\ UNCHANGED <<kv, lockNode, lastRId, idToRcvrs, keyToRcvrs, rcvrs, rchan,
                   dataCh, ctrlCh, hist, got, env>>
    /\ UNCHANGED callVars

\* SpecStop: the mappers with messages and a stop command
NextStop ==
    \/ \E n \in Stages :
          \/ Emit(n)
          \/ handleMsg(n)
          \/ enqueMsg(n)
          \/ EmitStop(n)
          \/ handleCmd(n)
          \/ stopSend(n)
          \/ closeChannels(n)
          \/ mapperReturn(n)
    \/ \E r \in 1..Len(rcvrs) : receive(r)

SpecStop == Init /\ [][NextStop]_vars

\* Spec: the mappers with messages and a migrate-receiver command
Next ==
    \/ \E n \in Stages :
          \/ Emit(n)
          \/ handleMsg(n)
          \/ enqueMsg(n)
          \/ EmitMigrate(n)
          \/ handleCmd(n)
          \/ rcvrStop(n)
          \/ migrateDial(n)
          \/ migrateDecodeError(n)
          \/ migrateFinish(n)
    \/ \E r \in 1..Len(rcvrs) : receive(r)

Spec == Init /\ [][Next]_vars

(***************************************************************************)
(* Claims on the mappers                                                   *)
(***************************************************************************)
\* C1 as stated: a key bound in one mapper to a receiver with ID
\* (StageId, RcvrId) is bound in no other mapper to a receiver with another
\* ID.
C1_UniqueOwnership ==
    \A n1, n2 \in Stages : \A k \in RegKeys :
        (/\ n1 # n2
         /\ keyToRcvrs[n1][k] # NoRcvr
         /\ keyToRcvrs[n2][k] # NoRcvr)
        => rcvrs[keyToRcvrs[n1][k]].rId = rcvrs[keyToRcvrs[n2][k]].rId

\* the receivers the keys of the last keyed message were bound to before it
\* was dispatched
ownersBefore(n) ==
    {hist[n].pre[k] : k \in Range(hist[n].ms)} \ {NoRcvr}

\* C7: after the dispatch of a keyed message with mapSet M that was not
\* fatal, all keys of M are bound in the mapper to one receiver, the one the
\* message is enqueued on; a key that was unbound before is bound to the
\* receiver that already owned the other keys.
C7_MapSetCoherence ==
    \A n \in Stages :
        hist[n].keyed =>
            \E r \in 1..Len(rcvrs) :
                /\ \A k \in Range(hist[n].ms) : keyToRcvrs[n][k] = r
                /\ run[n].pc = "enque" => run[n].rcvr = r
                /\ hist[n].enq # NoRcvr => hist[n].enq = r
                /\ ownersBefore(n) \subseteq {r}

\* C7 witness: an overlap merge was dispatched and enqueued: one key of the
\* mapSet was bound before, another was not.
C7_Witness ==
    \E n \in Stages :
        /\ hist[n].keyed
        /\ hist[n].enq # NoRcvr
        /\ ownersBefore(n) # {}
        /\ \E k \in Range(hist[n].ms) : hist[n].pre[k] = NoRcvr

\* the state right after migrate(r, B) completed on stage n
migrated(n) ==
    LET proxy == idToRcvrs[n][hist[n].new] IN
    /\ proxy # NoRcvr
    /\ rcvrs[proxy].kind = "proxy"
    /\ rcvrs[proxy].rId = hist[n].new
    /\ idToRcvrs[n][rcvrs[hist[n].old].rId] = proxy
    /\ \A k \in hist[n].M : keyToRcvrs[n][k] = proxy
    /\ \A k \in hist[n].M :
          kv[k] = marshallRegVal(regVal(hist[n].new.StageId, hist[n].new.Id))

\* C8: when migrate(r, B) completes successfully for a local receiver r
\* bound to the keys M, idToRcvrs maps r's old ID and the new remote ID to
\* the same proxy, every key of M is bound to that proxy, and the registry
\* maps every key of M to (B, r').
C8_MigrationEndState ==
    [][\A n \in Stages :
          (run[n].pc = "mig_reply" /\ hist'[n].mig = "ok") => migrated(n)']_vars

\* C8 witness: a migration of a receiver that owns a key has completed.
C8_Witness ==
    \E n \in Stages :
        /\ hist[n].mig = "ok"
        /\ hist[n].M # {}
        /\ migrated(n)

\* the messages dispatched to receiver root, or to its proxy, that wait in
\* data queue ch
waiting(root, ch) == {j \in 1..Len(rchan[ch]) : rchan[ch][j].root = root}

\* C9: of two messages a mapper took in some order from its data queue and
\* dispatched to the same receiver, the receiver's data queue yields the
\* first before the second, also when the receiver was made a proxy between
\* the two dispatches.
C9_PerReceiverFifo ==
    \A root \in 1..Len(got) :
        /\ \A x, y \in 1..Len(got[root]) :
              x < y => got[root][x].ord < got[root][y].ord
        /\ \A ch \in 1..Len(rchan) :
              /\ \A j \in waiting(root, ch) : \A x \in 1..Len(got[root]) :
                    got[root][x].ord < rchan[ch][j].ord
              /\ \A i, j \in waiting(root, ch) :
                    i < j => rchan[ch][i].ord < rchan[ch][j].ord

\* C9 witness: a message dispatched to a local receiver and one dispatched
\* later to the proxy that replaced it were both yielded.
C9_Witness ==
    \E n \in Stages :
        /\ hist[n].enq # NoRcvr
        /\ rcvrs[hist[n].enq].kind = "proxy"
        /\ rcvrs[hist[n].enq].root # hist[n].enq
        /\ Len(got[rcvrs[hist[n].enq].root]) >= 2

\* C10: a call of lock(mapSet, false) whose registry answer names another
\* owner than the tentative ID leaves lastRId as it was; a call that wins
\* leaves it one higher.
C10_CounterMonotonicity ==
    \A n \in Stages :
        hist[n].lockCalled =>
            lastRId[n] =
                IF /\ hist[n].answer.StageId = hist[n].tentative.StageId
                   /\ hist[n].answer.RcvrId = hist[n].tentative.Id
                THEN hist[n].before + 1
                ELSE hist[n].before

\* C10 witness: a lock call lost the placement to a receiver of another stage
\* on a mapper that had handed out an ID before.
C10_Witness ==
    \E n \in Stages :
        /\ hist[n].lockCalled
        /\ hist[n].answer.StageId # n
        /\ hist[n].before > 0
        /\ lastRId[n] = hist[n].before

\* the stop commands stopReceivers sent to receiver r
stopsSent(n, r) == Cardinality({j \in 1..Len(run[n].sent) : run[n].sent[j] = r})

\* C16 as stated: when handleCmd(stop) has completed, every receiver installed
\* in idToRcvrs has been sent exactly one stop command.
C16_StopReachesEveryReceiver ==
    \A n \in Stages :
        hist[n].stopped =>
            \A id \in AllIds :
                idToRcvrs[n][id] # NoRcvr => stopsSent(n, idToRcvrs[n][id]) = 1

\* C18 as stated: no message is enqueued on a local receiver that has
\* acknowledged the stop command of migrate.
C18_NoDispatchToStopped ==
    \A n \in Stages :
        hist[n].enq # NoRcvr =>
            ~(/\ rcvrs[hist[n].enq].kind = "local"
              /\ rcvrs[hist[n].enq].stoppedBy = "migrate")

\* the non-detached IDs of stage n installed in its idToRcvrs
localIds(n) ==
    {i \in 1..MaxId : idToRcvrs[n][rcvrId(n, i)] # NoRcvr}

\* C19: while the mapper's process lives, the non-detached IDs of its own
\* stage installed in idToRcvrs are exactly 1..lastRId; and a step that
\* raises lastRId (a won lock or a new-receiver command) installs an ID that
\* was not installed before.
C19_DenseLocalIds ==
    /\ [](\A n \in Stages : alive(n) => localIds(n) = 1..lastRId[n])
    /\ [][\A n \in Stages :
            (alive(n)' /\ lastRId'[n] > lastRId[n]) =>
                /\ lastRId'[n] = lastRId[n] + 1
                /\ idToRcvrs[n][rcvrId(n, lastRId'[n])] = NoRcvr
                /\ idToRcvrs'[n][rcvrId(n, lastRId'[n])] # NoRcvr]_vars

\* C19 witness: a mapper that holds a proxy for a key it lost to another
\* stage has won a lock and installed the ID it was given.
C19_Witness ==
    \E n \in Stages :
        /\ hist[n].lockCalled
        /\ hist[n].answer.StageId = n
        /\ hist[n].answer.RcvrId = hist[n].tentative.Id
        /\ idToRcvrs[n][hist[n].tentative] # NoRcvr
        /\ \E k \in RegKeys :
              /\ hist[n].pre[k] # NoRcvr
              /\ rcvrs[hist[n].pre[k]].kind = "proxy"

\* C21: at most one asyncResult is ever sent on the response channel of a
\* migrate-receiver command, and once migrate has returned from the command,
\* on whichever path, exactly one has been sent.
C21_MigrateAnswered ==
    \A c \in 1..MaxMigs :
        /\ env.res[c] <= 1
        /\ env.ret[c] => env.res[c] = 1

\* the mapper is inside stopReceivers and no entry it may visit next has a
\* receiver running on its control queue: the send r.ctrlCh <- stop on the
\* unbuffered queue does not complete
stopBlocked(n) ==
    /\ run[n].pc = "stop_send"
    /\ run[n].todo # {}
    /\ \A t \in run[n].todo :
          (0 \in run[n].todo => t = 0) =>
              \A x \in 1..Len(rcvrs) :
                  rcvrs[x].ch = rcvrs[stopTarget(n, t)].ch => ~rcvrs[x].running

\* C22: a mapper that handles the stop command never blocks in a send of
\* stopReceivers, so that it goes on to close its queues and to return.
C22_StopTerminates == \A n \in Stages : ~stopBlocked(n)

\* a blocked send of stopReceivers stays blocked
StopBlockedForever ==
    [][\A n \in Stages : stopBlocked(n) => stopBlocked(n)']_vars

(***************************************************************************)
(* The RPC client pool.  Its methods are operators on pw, the pool's maps  *)
(* and the count of clients dialed; pw.dialed tells that the call dialed.  *)
(* Errors are known by their kind: "nil", "backoff" (rpcBackoffError),     *)
(* "registry" (registry.hive failed), "dial" (newRPCClient failed) and, of *)
(* an RPC, "shutdown" (rpc.ErrShutdown), "nontemporary" (a net.Error that  *)
(* is not temporary) and "temporary" (a temporary net.Error; an error that *)
(* is no net.Error is handled alike).                                      *)
(***************************************************************************)
PoolWorld ==
    [hiveClients |-> hiveClients, retries |-> retries, made |-> made,
     dialed |-> FALSE]

\* the errors an RPC on a client may return
CallErrs == {"nil", "shutdown", "nontemporary", "temporary"}

shouldReset(err) == err = "shutdown" \/ err = "nontemporary"

lookupHive(pw, hive) == pw.hiveClients[hive]

setHive(pw, hive, client) == [pw EXCEPT !.hiveClients[hive] = client]

deleteHive(pw, hive) == [pw EXCEPT !.hiveClients[hive] = NoClient]

\* t.wait *= 2, capped at maxWait
nextWait(wait) == IF wait * 2 > maxWait THEN maxWait ELSE wait * 2

\* newClient after a failed dial
dialFailed(pw, hive, now) ==
    LET t == pw.retries[hive] IN
    [pw EXCEPT !.retries[hive] =
                   [t EXCEPT !.tries = @ + 1, !.wait = nextWait(t.wait),
                             !.next = now + nextWait(t.wait),
                             !.streak = @ + 1, !.failedAt = now],
               !.dialed = TRUE]

\* newClient after a successful dial
dialDone(pw, hive, now) ==
    LET t == pw.retries[hive] IN
    [pw EXCEPT !.retries[hive] = [t EXCEPT !.wait = second, !.next = now,
                                           !.streak = 0],
               !.made = @ + 1,
               !.hiveClients[hive] = pw.made + 1,
               !.dialed = TRUE]

\* mutant: a failed dial leaves the wait as it is
newClientNoDouble(pw, hive, now, st) ==
    LET t == pw.retries[hive] IN
    IF lookupHive(pw, hive) # NoClient
    THEN [pw |-> pw, client |-> lookupHive(pw, hive), err |-> "nil"]
    ELSE IF ~(now > t.next)
    THEN [pw |-> pw, client |-> NoClient, err |-> "backoff"]
    ELSE IF st = "unknown"
    THEN [pw |-> pw, client |-> NoClient, err |-> "registry"]
    ELSE IF st = "down"
    THEN [pw |-> [pw EXCEPT !.retries[hive] =
                      [t EXCEPT !.tries = @ + 1, !.next = now + t.wait,
                                !.streak = @ + 1, !.failedAt = now],
                            !.dialed = TRUE],
          client |-> NoClient, err |-> "dial"]
    ELSE [pw |-> dialDone(pw, hive, now), client |-> pw.made + 1,
          err |-> "nil"]

\* mutant: a successful dial sets the wait back to minWait
newClientMinWait(pw, hive, now, st) ==
    LET t == pw.retries[hive] IN
    IF lookupHive(pw, hive) # NoClient
    THEN [pw |-> pw, client |-> lookupHive(pw, hive), err |-> "nil"]
    ELSE IF ~(now > t.next)
    THEN [pw |-> pw, client |-> NoClient, err |-> "backoff"]
    ELSE IF st = "unknown"
    THEN [pw |-> pw, client |-> NoClient, err |-> "registry"]
    ELSE IF st = "down"
    THEN [pw |-> dialFailed(pw, hive, now), client |-> NoClient,
          err |-> "dial"]
    ELSE [pw |-> [dialDone(pw, hive, now) EXCEPT
                      !.retries[hive].wait = minWait],
          client |-> pw.made + 1, err |-> "nil"]

\* newClient, run under t.Lock: the second lookup, the backoff window
\* (!now.After(t.next)), the registry, the dial
newClient(pw, hive, now, st) ==
    LET t == pw.retries[hive] IN
    IF lookupHive(pw, hive) # NoClient
    THEN [pw |-> pw, client |-> lookupHive(pw, hive), err |-> "nil"]
    ELSE IF ~(now > t.next)
    THEN [pw |-> pw, client |-> NoClient, err |-> "backoff"]
    ELSE IF st = "unknown"
    THEN [pw |-> pw, client |-> NoClient, err |-> "registry"]
    ELSE IF st = "down"
    THEN [pw |-> dialFailed(pw, hive, now), client |-> NoClient,
          err |-> "dial"]
    ELSE [pw |-> dialDone(pw, hive, now), client |-> pw.made + 1,
          err |-> "nil"]

resetHiveClient(pw, hive, prev, now, st) ==
    LET client == lookupHive(pw, hive) IN
    IF client # NoClient /\ client # prev
    THEN [pw |-> pw, client |-> client, err |-> "nil"]
    ELSE LET n == newClient(deleteHive(pw, hive), hive, now, st) IN
         IF n.err # "nil" THEN n
         ELSE [n EXCEPT !.pw = setHive(n.pw, hive, n.client)]

hiveClient(pw, hive, now, st) ==
    IF lookupHive(pw, hive) # NoClient
    THEN [pw |-> pw, client |-> lookupHive(pw, hive), err |-> "nil"]
    ELSE resetHiveClient(pw, hive, NoClient, now, st)

\* p.hive.bee(bee).Hive: every bee lives on the one peer hive
beeHive(bee) == CHOOSE h \in Hives : TRUE

beeClient(pw, bee, now, st) == hiveClient(pw, beeHive(bee), now, st)

resetBeeClient(pw, bee, prevClient, now, st) ==
    resetHiveClient(pw, beeHive(bee), prevClient, now, st)

\* the loop of sendMsg over the groups, in the order the map iteration
\* yields them; relay[b] is what client.sendMsg returns for group b
RECURSIVE sendMsgLoop(_, _, _, _, _, _)
sendMsgLoop(acc, order, relay, now, st, redial) ==
    IF order = <<>> THEN [acc EXCEPT !.redial = redial]
    ELSE LET b == Head(order)
             c == beeClient(acc.pw, b, now, st)
         IN  IF c.err # "nil"
             THEN sendMsgLoop([pw |-> c.pw, err |-> c.err,
                               errs |-> Append(acc.errs, c.err),
                               redial |-> redial],
                              Tail(order), relay, now, st, redial)
             ELSE IF shouldReset(relay[b])
             THEN LET x == resetBeeClient(c.pw, b, c.client, now, st) IN
                  sendMsgLoop([pw |-> x.pw, err |-> relay[b],
                               errs |-> Append(acc.errs, relay[b]),
                               redial |-> redial],
                              Tail(order), relay, now, st, x.err)
             ELSE sendMsgLoop([pw |-> c.pw, err |-> acc.err,
                               errs |-> Append(acc.errs, relay[b]),
                               redial |-> redial],
                              Tail(order), relay, now, st, redial)

\* the error sendMsg returns, the error met for each group, and the error of
\* the last reset's newClient ("none": no reset)
sendMsg(pw, order, relay, now, st) ==
    sendMsgLoop([pw |-> pw, err |-> "nil", errs |-> <<>>, redial |-> "none"],
                order, relay, now, st, "none")

snapStatus(err) == IF err # "nil" THEN "SnapshotFailure" ELSE "SnapshotFinish"

unreachable(err) == err # "nil"

\* report, the inner loop: msgs[j] tells whether message j of the group
\* carries a snapshot
RECURSIVE reportMsgs(_, _, _)
reportMsgs(err, g, msgs) ==
    IF msgs = <<>> THEN <<>>
    ELSE (IF Head(msgs)
          THEN <<[fn |-> "ReportSnapshot", g |-> g, status |-> snapStatus(err)]>>
          ELSE <<>>) \o reportMsgs(err, g, Tail(msgs))

\* report, the outer loop over the groups gs of the batch
RECURSIVE reportGroups(_, _, _)
reportGroups(err, batch, gs) ==
    IF gs = {} THEN <<>>
    ELSE LET g == CHOOSE x \in gs : \A y \in gs : x <= y IN
         (IF unreachable(err)
          THEN <<[fn |-> "ReportUnreachable", g |-> g, status |-> "none"]>>
          ELSE <<>>)
            \o reportMsgs(err, g, batch.Messages[g])
            \o reportGroups(err, batch, gs \ {g})

\* the calls report makes on the reporter
report(err, batch) == reportGroups(err, batch, DOMAIN batch.Messages)

\* mutant: the pool returns the error of hiveClient without reporting
sendRaftNoReport(pw, batch, callErr, now, st) ==
    LET c == hiveClient(pw, batch.To, now, st) IN
    IF c.err # "nil"
    THEN [pw |-> c.pw, err |-> c.err, calls |-> <<>>]
    ELSE [pw    |-> IF shouldReset(callErr)
                    THEN resetHiveClient(c.pw, batch.To, c.client, now, st).pw
                    ELSE c.pw,
          err   |-> callErr,
          calls |-> report(callErr, batch)]

\* rpcClientPool.sendRaft with rpcClient.sendRaft; callErr is what the RPC
\* returns
sendRaft(pw, batch, callErr, now, st) ==
    LET c == hiveClient(pw, batch.To, now, st) IN
    IF c.err # "nil"
    THEN [pw |-> c.pw, err |-> c.err, calls |-> report(c.err, batch)]
    ELSE [pw    |-> IF shouldReset(callErr)
                    THEN resetHiveClient(c.pw, batch.To, c.client, now, st).pw
                    ELSE c.pw,
          err   |-> callErr,
          calls |-> report(callErr, batch)]

(***************************************************************************)
(* SpecRpc: one caller of the pool; the clock advances and the peer hive   *)
(* stops, comes back or is dropped from the registry between the calls.    *)
(***************************************************************************)
\* the times between two calls: within minWait, longer than every wait
Ticks == {minWait, maxWait + 1}
\* the same with a time longer than minWait and within the wait after a
\* failed redial
ShortTicks == {minWait, second, maxWait + 1}

\* the destinations of a sendMsg batch in the order the map iteration visits
\* them; the bees live on the same peer and each gets its own relay error, so
\* the orders that begin with bee 1 stand for the others
Orders == {<<1>>, <<1, 2>>}

\* raft groups, the messages of a group (TRUE: carries a snapshot), batches
Groups == {1, 2}
SnapLists == {<<FALSE>>, <<TRUE, FALSE, TRUE>>}
Batches ==
    {[To |-> h, Messages |-> f] :
        h \in Hives, f \in UNION {[G -> SnapLists] : G \in SUBSET Groups \ {{}}}}

\* the call's effect on the pool
CommitPool(pw) ==
    /\ hiveClients' = pw.hiveClients
    /\ retries' = pw.retries
    /\ made' = pw.made

coreVars == <<kv, lockNode, sog, call, lockOwner, ncalls, stolen, lastRId,
              idToRcvrs, keyToRcvrs, rcvrs, rchan, dataCh, ctrlCh, run, hist,
              got, env>>

Tick(d) ==
    /\ clock.ticks < MaxTicks
    /\ clock' = [now |-> clock.now + d, ticks |-> clock.ticks + 1]
    /\ UNCHANGED <<peer, hiveClients, retries, made, thr, out>>
    /\ UNCHANGED coreVars

\* the clock of the specifications with few calls
TickShort(d) ==
    /\ clock.ticks < MaxPoolTicks
    /\ clock' = [now |-> clock.now + d, ticks |-> clock.ticks + 1]
    /\ UNCHANGED <<peer, hiveClients, retries, made, thr, out>>
    /\ UNCHANGED coreVars

SetPeer(st) ==
    /\ peer # st
    /\ peer' = st
    /\ UNCHANGED <<clock, hiveClients, retries, made, thr, out>>
    /\ UNCHANGED coreVars

SendMsg(order) ==
    \E relay \in [Range(order) -> CallErrs] :
        /\ LET r == sendMsg(PoolWorld, order, relay, clock.now, peer) IN
             /\ CommitPool(r.pw)
             /\ out' = [NoOut EXCEPT
                   !.op = "sendMsg", !.peer = peer, !.order = order,
                   !.since = clock.now - retries[beeHive(order[1])].failedAt,
                   !.errs = r.errs, !.ret = r.err, !.dialed = r.pw.dialed,
                   !.fail = IF /\ Len(order) = 1
                               /\ hiveClients[beeHive(order[1])] # NoClient
                               /\ peer = "down"
                               /\ shouldReset(relay[order[1]])
                            THEN "transport" ELSE "none",
                   !.redial = r.redial,
                   !.pre = [fail |-> out.fail, redial |-> out.redial]]
        /\ UNCHANGED <<clock, peer, thr>>
        /\ UNCHANGED coreVars

SendRaft ==
    \E batch \in Batches, callErr \in CallErrs :
        /\ LET r == sendRaft(PoolWorld, batch, callErr, clock.now, peer) IN
             /\ CommitPool(r.pw)
             /\ out' = [NoOut EXCEPT
                   !.op = "sendRaft", !.peer = peer, !.ret = r.err,
                   !.dialed = r.pw.dialed, !.batch = batch,
                   !.calls = r.calls]
        /\ UNCHANGED <<clock, peer, thr>>
        /\ UNCHANGED coreVars

\* rpcClientPool.sendCmd; callErr is what the RPC returns
sendCmd(pw, hive, callErr, now, st) ==
    LET c == hiveClient(pw, hive, now, st) IN
    IF c.err # "nil" THEN [pw |-> c.pw, err |-> c.err]
    ELSE [pw  |-> IF shouldReset(callErr)
                  THEN resetHiveClient(c.pw, hive, c.client, now, st).pw
                  ELSE c.pw,
          err |-> callErr]

SendCmd ==
    \E hive \in Hives, callErr \in CallErrs :
        /\ LET r == sendCmd(PoolWorld, hive, callErr, clock.now, peer) IN
             /\ CommitPool(r.pw)
             /\ out' = [NoOut EXCEPT !.op = "sendCmd", !.ret = r.err,
                                     !.dialed = r.pw.dialed]
        /\ UNCHANGED <<clock, peer, thr>>
        /\ UNCHANGED coreVars

NextRpc ==
    \/ \E d \in Ticks : Tick(d)
    \/ \E st \in {"up", "down"} : SetPeer(st)
    \/ SendCmd

SpecRpc == Init /\ [][NextRpc]_vars

NextSend ==
    \/ \E d \in ShortTicks : TickShort(d)
    \/ \E st \in {"up", "down"} : SetPeer(st)
    \/ \E order \in Orders : SendMsg(order)

SpecSend == Init /\ [][NextSend]_vars

NextRaft ==
    \/ \E d \in Ticks : TickShort(d)
    \/ \E st \in {"up", "down", "unknown"} : SetPeer(st)
    \/ SendRaft

SpecRaft == Init /\ [][NextRaft]_vars

Min(a, b) == IF a < b THEN a ELSE b

RECURSIVE Pow2(_)
Pow2(k) == IF k = 0 THEN 1 ELSE 2 * Pow2(k - 1)

\* C11: the wait never exceeds maxWait, and after k >= 1 failed dials in a
\* row the next dial is not before the last failed one plus
\* min(maxWait, 2^k * minWait).
C11_BackoffMonotonicity ==
    \A h \in Hives :
        /\ retries[h].wait <= maxWait
        /\ retries[h].streak >= 1 =>
              retries[h].next >= retries[h].failedAt
                  + Min(maxWait, Pow2(retries[h].streak) * minWait)

\* C11 witness: eight dials have failed, the last ones in a row, and the wait
\* is capped at maxWait.
C11_Witness ==
    \E h \in Hives :
        /\ retries[h].streak >= 2
        /\ retries[h].wait = maxWait
        /\ retries[h].tries >= 8

\* the last call was a sendMsg for one destination that followed a sendMsg
\* whose relay on the cached client failed with a transport error while the
\* peer's listener was stopped, and whose reset dialed the stopped peer
afterTransportFailure ==
    /\ out.op = "sendMsg"
    /\ Len(out.order) = 1
    /\ out.pre.fail = "transport"
    /\ out.pre.redial = "dial"

\* the call got a client
gotClient == out.errs[1] \notin {"backoff", "registry", "dial"}

\* the sendMsg whose relay failed returned the transport error and left no
\* cached client
transportFailure ==
    (out.op = "sendMsg" /\ out.fail = "transport") =>
        /\ out.ret \in {"shutdown", "nontemporary"}
        /\ out.redial \in {"dial", "backoff"}
        /\ \A h \in Hives : hiveClients[h] = NoClient

\* C12 as stated: the call after the transport failure returns a
\* BackoffError without dialing when made within 50 ms of it, and dials and
\* succeeds, leaving the wait at 1 s, when made later with the peer restored.
C12_S5Original ==
    /\ transportFailure
    /\ afterTransportFailure =>
          /\ out.since <= minWait =>
                (out.ret = "backoff" /\ ~out.dialed)
          /\ (out.since > minWait /\ out.peer = "up") =>
                /\ out.dialed
                /\ gotClient
                /\ \A h \in Hives : retries[h].wait = second

\* C12 amended: the reset's dial fails and doubles the wait of 1 s the
\* cached client's dial had left; the call after it returns a BackoffError
\* without dialing when made up to 2 s after the failure, and dials and
\* succeeds, leaving the wait at 1 s, when made later with the peer restored.
C12_S5 ==
    /\ transportFailure
    /\ afterTransportFailure =>
          /\ out.since <= 2 * second =>
                (out.ret = "backoff" /\ ~out.dialed)
          /\ (out.since > 2 * second /\ out.peer = "up") =>
                /\ out.dialed
                /\ gotClient
                /\ \A h \in Hives : retries[h].wait = second

\* C12 witness: the peer was restored and the call made more than 2 s after
\* the failed redial dialed.
C12_Witness ==
    /\ afterTransportFailure
    /\ out.since > 2 * second
    /\ out.peer = "up"
    /\ out.dialed

\* the groups of the last sendMsg that met an error
failing == {j \in 1..Len(out.errs) : out.errs[j] # "nil"}

\* C14 as stated: sendMsg returns nil when no group met an error, and
\* otherwise the error of the last group that met one.
C14_SendMsgLastError ==
    out.op = "sendMsg" =>
        IF failing = {} THEN out.ret = "nil"
        ELSE out.ret = out.errs[CHOOSE j \in failing : \A i \in failing : i <= j]

\* the calls of fn with this status the reporter got for group g
reported(fn, g, status) ==
    Cardinality({j \in 1..Len(out.calls) :
                    out.calls[j] = [fn |-> fn, g |-> g, status |-> status]})

\* the messages of group g that carry a snapshot
snapshots(g) ==
    Cardinality({j \in 1..Len(out.batch.Messages[g]) : out.batch.Messages[g][j]})

\* C15: a sendRaft that returns an error reports every group unreachable once
\* and every snapshot message failed once, whether or not a client was
\* obtained; one that succeeds reports no group unreachable and every
\* snapshot message finished; nothing else is reported.
C15_RaftReporting ==
    out.op = "sendRaft" =>
        /\ \A g \in DOMAIN out.batch.Messages :
              IF out.ret # "nil"
              THEN /\ reported("ReportUnreachable", g, "none") = 1
                   /\ reported("ReportSnapshot", g, "SnapshotFailure")
                          = snapshots(g)
                   /\ reported("ReportSnapshot", g, "SnapshotFinish") = 0
              ELSE /\ reported("ReportUnreachable", g, "none") = 0
                   /\ reported("ReportSnapshot", g, "SnapshotFinish")
                          = snapshots(g)
                   /\ reported("ReportSnapshot", g, "SnapshotFailure") = 0
        /\ \A j \in 1..Len(out.calls) : out.calls[j].g \in DOMAIN out.batch.Messages

\* C15 witness: a batch with a snapshot message was refused by the backoff
\* window.
C15_Witness ==
    /\ out.op = "sendRaft"
    /\ out.ret = "backoff"
    /\ \E g \in DOMAIN out.batch.Messages : snapshots(g) > 0

(***************************************************************************)
(* The pool under concurrent callers: hiveClient, resetHiveClient and      *)
(* newClient step by step.  lookupHive, setHive and deleteHive are atomic  *)
(* under the pool's lock; newClient holds the peer's dialTry lock from its *)
(* second lookup to its return; nothing else is held between the steps.    *)
(***************************************************************************)
RECURSIVE opsOf(_)
opsOf(S) ==
    IF S = {} THEN 0
    ELSE LET t == CHOOSE x \in S : TRUE IN thr[t].ops + opsOf(S \ {t})

poolFrame == /\ UNCHANGED <<clock, peer, out>>
             /\ UNCHANGED coreVars

\* the caller returns from the pool
poolReturn(t, client) ==
    thr' = [thr EXCEPT ![t].pc = "idle", ![t].client = client]

\* sendCmd calls hiveClient: a hit returns the cached client, a miss goes on
\* to resetHiveClient(hive, nil)
callHiveClient(t, hive) ==
    /\ thr[t].pc = "idle"
    /\ opsOf(Callers) < MaxOps
    /\ LET c == lookupHive(PoolWorld, hive) IN
       thr' = [thr EXCEPT ![t] =
                   [pc |-> IF c # NoClient THEN "have" ELSE "reset_lookup",
                    hive |-> hive, prev |-> NoClient, client |-> c,
                    deleted |-> NoClient, dialed |-> FALSE,
                    ops |-> thr[t].ops + 1]]
    /\ UNCHANGED <<hiveClients, retries, made>>
    /\ poolFrame

\* client.sendCmd returns err; sendCmd resets the client when shouldReset(err)
callClient(t, err) ==
    /\ thr[t].pc = "have"
    /\ thr' = [thr EXCEPT ![t].pc = IF shouldReset(err) THEN "reset_lookup"
                                    ELSE "idle",
                          ![t].prev = IF shouldReset(err) THEN thr[t].client
                                      ELSE NoClient]
    /\ UNCHANGED <<hiveClients, retries, made>>
    /\ poolFrame

\* resetHiveClient: the lookup and the guard (ok && client != prev)
resetLookup(t) ==
    /\ thr[t].pc = "reset_lookup"
    /\ LET c == lookupHive(PoolWorld, thr[t].hive) IN
       IF c # NoClient /\ c # thr[t].prev
       THEN poolReturn(t, c)
       ELSE thr' = [thr EXCEPT ![t].pc = "reset_delete"]
    /\ UNCHANGED <<hiveClients, retries, made>>
    /\ poolFrame

\* resetHiveClient: p.deleteHive(hive) removes whatever client is cached now;
\* deleted remembers a removed client that is not the prev of this caller
resetDelete(t) ==
    /\ thr[t].pc = "reset_delete"
    /\ LET c == lookupHive(PoolWorld, thr[t].hive) IN
       thr' = [thr EXCEPT ![t].pc = "nc_lock",
                          ![t].deleted = IF c # thr[t].prev THEN c
                                         ELSE NoClient]
    /\ CommitPool(deleteHive(PoolWorld, thr[t].hive))
    /\ poolFrame

\* newClient: t.Lock, the second lookup, the backoff window and the registry
newClientLock(t) ==
    /\ thr[t].pc = "nc_lock"
    /\ \A u \in Callers : thr[u].pc # "nc_dial"
    /\ LET c == lookupHive(PoolWorld, thr[t].hive)
           r == retries[thr[t].hive] IN
       IF c # NoClient
       THEN thr' = [thr EXCEPT ![t].pc = "reset_set", ![t].client = c]
       ELSE IF ~(clock.now > r.next) \/ peer = "unknown"
       THEN poolReturn(t, NoClient)
       ELSE thr' = [thr EXCEPT ![t].pc = "nc_dial"]
    /\ UNCHANGED <<hiveClients, retries, made>>
    /\ poolFrame

\* newClient: the dial, the dialTry, setHive on success, t.Unlock
newClientDial(t) ==
    /\ thr[t].pc = "nc_dial"
    /\ IF peer = "down"
       THEN /\ CommitPool(dialFailed(PoolWorld, thr[t].hive, clock.now))
            /\ poolReturn(t, NoClient)
       ELSE /\ CommitPool(dialDone(PoolWorld, thr[t].hive, clock.now))
            /\ thr' = [thr EXCEPT ![t].pc = "reset_set",
                                  ![t].client = made + 1,
                                  ![t].dialed = TRUE]
    /\ poolFrame

\* resetHiveClient: p.setHive(hive, client) with newClient's client
resetSet(t) ==
    /\ thr[t].pc = "reset_set"
    /\ CommitPool(setHive(PoolWorld, thr[t].hive, thr[t].client))
    /\ poolReturn(t, thr[t].client)
    /\ poolFrame

NextPool ==
    \/ \E d \in ShortTicks : TickShort(d)
    \/ \E st \in {"up", "down", "unknown"} : SetPeer(st)
    \/ \E t \in Callers, hive \in Hives : callHiveClient(t, hive)
    \/ \E t \in Callers, err \in CallErrs : callClient(t, err)
    \/ \E t \in Callers : resetLookup(t)
    \/ \E t \in Callers : resetDelete(t)
    \/ \E t \in Callers : newClientLock(t)
    \/ \E t \in Callers : newClientDial(t)
    \/ \E t \in Callers : resetSet(t)

SpecPool == Init /\ [][NextPool]_vars

\* C13: under any interleaving of hiveClient and resetHiveClient calls for
\* one peer, no caller removes from hiveClients a client other than the prev
\* it saw and then replaces it by a client of another dial.
C13_ResetGuard ==
    \A t \in Callers : ~(thr[t].deleted # NoClient /\ thr[t].dialed)

(***************************************************************************)
(* The RPC server's ProcessCmd.  The server is hive ThisHive with one app  *)
(* and one bee; every command that reaches a control channel is answered   *)
(* by its handler with data or with an error.                              *)
(***************************************************************************)
Nil == 0
ThisHive == 1
Apps == {"a"}
AppBees == {1}

CmdSet == [Hive : {Nil, ThisHive, 2}, App : {"", "a", "x"}, Bee : {Nil, 1, 2}]

CmdSeqs == UNION {[1..n -> CmdSet] : n \in 1..MaxCmds}

\* the zero cmdResult of make([]cmdResult, len(cmds))
zeroResult == [Data |-> "nil", Err |-> "nil"]

\* what the handler of a control channel may send on the command's channel
Answers == {[Data |-> "data", Err |-> "nil"], [Data |-> "nil", Err |-> "handler"]}

\* the first loop's body: the result that ends up on the channel of command
\* c, ans being the answer of the handler when c reaches a control channel
routeCmd(c, ans) ==
    IF c.Hive # Nil /\ c.Hive # ThisHive
    THEN [Data |-> "nil", Err |-> "receives command to another hive"]
    ELSE IF c.App = "" THEN ans
    ELSE IF c.App \notin Apps
    THEN [Data |-> "nil", Err |-> "cannot find app"]
    ELSE IF c.Bee = Nil THEN ans
    ELSE IF c.Bee \notin AppBees
    THEN [Data |-> "nil", Err |-> "cannot find bee"]
    ELSE ans

\* the second loop: it stores the result of the first channel in (*res)[0]
\* and returns nil
ProcessCmd(cmds, chs) ==
    [i \in 1..Len(cmds) |-> IF i = 1 THEN chs[1] ELSE zeroResult]

InitCmd ==
    /\ kv = [k \in RegKeys |-> NoNode]
    /\ lockNode = NoNode
    /\ sog = [pc |-> "none", id |-> regVal(1, 1), ms |-> <<>>, pre |-> kv,
              v |-> regVal(1, 1), lockHeld |-> FALSE]
    /\ call = [p \in Clients |-> NoCall]
    /\ lockOwner = 0
    /\ ncalls = 0
    /\ stolen = FALSE
    /\ InitMap
    /\ InitPool
    /\ out \in {[NoOut EXCEPT !.cmds = cmds] : cmds \in CmdSeqs}

ServeCmd ==
    /\ out.op = "none"
    /\ \E ans \in [1..Len(out.cmds) -> Answers] :
          LET chs == [i \in 1..Len(out.cmds) |-> routeCmd(out.cmds[i], ans[i])] IN
          out' = [out EXCEPT !.op = "ProcessCmd", !.chs = chs,
                             !.res = ProcessCmd(out.cmds, chs)]
    /\ UNCHANGED <<clock, peer, hiveClients, retries, made, thr>>
    /\ UNCHANGED coreVars

NextCmd == ServeCmd

SpecCmd == InitCmd /\ [][NextCmd]_vars

\* C17: when ProcessCmd has returned for n >= 1 commands, the result has n
\* entries and entry i is the result that was produced for command i.
C17_OneResultPerCmd ==
    out.op = "ProcessCmd" =>
        /\ Len(out.res) = Len(out.cmds)
        /\ \A i \in 1..Len(out.cmds) : out.res[i] = out.chs[i]

====
